---- MODULE Spec2Model ----
(***************************************************************************)
(* JackiesList: the task orchestration service (taskService.ts), the       *)
(* persistence layer it drives (DatabaseService), the recurrence rule      *)
(* engine (recurrence.ts) and the date utilities (date.ts).                *)
(*                                                                         *)
(* Time.  An instant (a JS Date) is a whole number of hours since          *)
(* 1970-01-01T00:00Z.  The device's zone is a fixed offset tz (hours east  *)
(* of UTC, no DST).  A date string "YYYY-MM-DD" is the number of the civil *)
(* day it names (days since 1970-01-01), so string order is day order.     *)
(* A due time "HH:MM" is the hour HH; -1 is an absent due time.            *)
(* Absent text is one of Undefined, Null or the empty string; an absent    *)
(* recurrence interval is 0 (undefined, null, NaN and 0 are all falsy).    *)
(***************************************************************************)
EXTENDS Integers, Sequences, FiniteSets, TLC

VARIABLES tz, now, ms, H, tasks, completions, dbReady, appReady, pc, res

vars == <<tz, now, ms, H, tasks, completions, dbReady, appReady, pc, res>>

-----------------------------------------------------------------------------
(* Bounds of the model *)

MaxTasks == 3
MaxCompletions == 3
MaxAdvance == 2
MaxCalls == 3
MaxFailIdx == 2
MaxH == 3
MaxHistoryTasks == 3
MaxHistory == 2

-----------------------------------------------------------------------------
(* Absent values *)

Undefined == "undefined"
Null == "null"
NoTime == 0 - 1

FalsyStr(v) == v \in {Undefined, Null, ""}

\* JS `v || null` on an optional string
OrNullStr(v) == IF FalsyStr(v) THEN Null ELSE v

-----------------------------------------------------------------------------
(* Civil calendar (proleptic Gregorian), as the JS Date object computes it *)

DaysFromCivil(y, m, d) ==
  LET yy  == IF m <= 2 THEN y - 1 ELSE y
      era == yy \div 400
      yoe == yy - era * 400
      mp  == IF m > 2 THEN m - 3 ELSE m + 9
      doy == (153 * mp + 2) \div 5 + d - 1
      doe == yoe * 365 + yoe \div 4 - yoe \div 100 + doy
  IN  era * 146097 + doe - 719468

CivilFromDays(z0) ==
  LET z   == z0 + 719468
      era == z \div 146097
      doe == z - era * 146097
      yoe == (doe - doe \div 1460 + doe \div 36524 - doe \div 146096) \div 365
      doy == doe - (365 * yoe + yoe \div 4 - yoe \div 100)
      mp  == (5 * doy + 2) \div 153
      d   == doy - (153 * mp + 2) \div 5 + 1
      m   == IF mp < 10 THEN mp + 3 ELSE mp - 9
      y   == yoe + era * 400 + (IF m <= 2 THEN 1 ELSE 0)
  IN  [y |-> y, m |-> m, d |-> d]

\* local calendar day and local hour of an instant
LocalDay(t, zone) == (t + zone) \div 24
LocalHour(t, zone) == (t + zone) % 24

\* new Date("YYYY-MM-DD"): a date-only string is parsed as UTC midnight
ParseDateOnly(dateStr) == dateStr * 24

\* new Date(d); d.setHours(0, 0, 0, 0): local midnight of d's local day
LocalMidnight(t, zone) == LocalDay(t, zone) * 24 - zone

\* d.setDate(d.getDate() + n): n local days later, same local time of day
AddDays(t, n) == t + 24 * n

\* d.setMonth(d.getMonth() + k): the day of month is kept and overflows into
\* the following month (Jan 31 + 1 month = Mar 2 or Mar 3)
AddMonths(t, k, zone) ==
  LET c  == CivilFromDays(LocalDay(t, zone))
      m0 == (c.m - 1) + k
      y1 == c.y + m0 \div 12
      m1 == (m0 % 12) + 1
      day == DaysFromCivil(y1, m1, 1) + (c.d - 1)
  IN  day * 24 + LocalHour(t, zone) - zone

\* d.setFullYear(d.getFullYear() + k)
AddYears(t, k, zone) ==
  LET c == CivilFromDays(LocalDay(t, zone))
      day == DaysFromCivil(c.y + k, c.m, 1) + (c.d - 1)
  IN  day * 24 + LocalHour(t, zone) - zone

\* date.ts getDateString: the LOCAL calendar day of the instant
getDateString(t, zone) == LocalDay(t, zone)

\* new Date().toISOString().split('T')[0] and SQLite date(<ISO timestamp>):
\* the UTC calendar day of the instant
IsoDate(t) == t \div 24

-----------------------------------------------------------------------------
(* Recurrence rule engine *)

Patterns == {"daily", "weekly", "biweekly", "monthly", "quarterly", "annually", "custom"}

getNextRecurrenceDate(currentDate, pattern, interval, zone) ==
  CASE pattern = "daily"     -> AddDays(currentDate, 1)
    [] pattern = "weekly"    -> AddDays(currentDate, 7)
    [] pattern = "biweekly"  -> AddDays(currentDate, 14)
    [] pattern = "monthly"   -> AddMonths(currentDate, 1, zone)
    [] pattern = "quarterly" -> AddMonths(currentDate, 3, zone)
    [] pattern = "annually"  -> AddYears(currentDate, 1, zone)
    [] pattern = "custom"    -> IF interval # 0 THEN AddDays(currentDate, interval)
                                ELSE currentDate
    [] OTHER                 -> currentDate

-----------------------------------------------------------------------------
(* Persistence layer (DatabaseService).  A table is the sequence of its    *)
(* rows in insertion order.  createdAt/updatedAt are not modelled: nothing *)
(* modelled here reads them.                                               *)

\* Date.now().toString(): the millisecond clock, `ms` counting within the hour
DateNow(t, clk) == <<t, clk>>

Ids(table) == {table[i].id : i \in 1..Len(table)}

\* the row INSERTed by DatabaseService.createTask for `task` under `id`
\* (an absent interval and `0 || null` are both the interval 0 of the model)
TaskRow(task, id) ==
  [id |-> id,
   title |-> task.title,
   description |-> OrNullStr(task.description),
   type |-> task.type,
   dueDate |-> task.dueDate,
   dueTime |-> task.dueTime,
   isRecurring |-> task.isRecurring,
   recurrencePattern |-> OrNullStr(task.recurrencePattern),
   recurrenceInterval |-> task.recurrenceInterval,
   priority |-> task.priority,
   categoryId |-> OrNullStr(task.categoryId)]

\* the Task returned by DatabaseService.createTask: { ...task, id, ... }
CreatedTask(task, id) ==
  [f \in DOMAIN task \cup {"id"} |-> IF f = "id" THEN id ELSE task[f]]

\* DatabaseService.createTask succeeds unless the handle is missing, the
\* INSERT fails, or the id (PRIMARY KEY) is already in the table
dbCreateTaskOk(table, id, ready, io) == ready /\ io /\ id \notin Ids(table)

dbCreateTask(table, task, id) == Append(table, TaskRow(task, id))

\* ORDER BY due_date, due_time (NULL first), ties in rowid order
SortKey(row) == row.dueDate * 100 + row.dueTime + 1

RECURSIVE SortKeys(_)
SortKeys(S) ==
  IF S = {} THEN <<>>
  ELSE LET m == CHOOSE x \in S : \A y \in S : x <= y
       IN  <<m>> \o SortKeys(S \ {m})

RECURSIVE ConcatByKey(_, _, _)
ConcatByKey(table, keys, i) ==
  IF i > Len(keys) THEN <<>>
  ELSE SelectSeq(table, LAMBDA r : SortKey(r) = keys[i]) \o ConcatByKey(table, keys, i + 1)

OrderByDue(table) ==
  ConcatByKey(table, SortKeys({SortKey(table[i]) : i \in 1..Len(table)}), 1)

\* DatabaseService.getTasks(): every row
dbGetAllTasks(table) == OrderByDue(table)

\* DatabaseService.getTasks(date): WHERE date(due_date) = date(?)
dbGetTasks(table, date) == OrderByDue(SelectSeq(table, LAMBDA r : r.dueDate = date))

\* DatabaseService.updateTask: UPDATE tasks SET <fields> WHERE id = ?
\* (updates is a record of row fields; no row with that id: nothing changes)
ApplyUpdates(row, updates) ==
  [f \in DOMAIN row |-> IF f \in DOMAIN updates THEN updates[f] ELSE row[f]]

dbUpdateTask(table, id, updates) ==
  [i \in 1..Len(table) |->
     IF table[i].id = id THEN ApplyUpdates(table[i], updates) ELSE table[i]]

\* DatabaseService.deleteTask: both DELETE statements
\* a delete that leaves the completions of the task behind
dbKeepCompletionsOf(comps, id) == comps

dbDeleteCompletionsOf(comps, id) == SelectSeq(comps, LAMBDA c : c.taskId # id)
dbDeleteTaskRow(table, id) == SelectSeq(table, LAMBDA r : r.id # id)

\* DatabaseService.completeTask: INSERT INTO task_completions
\* (the table's own PRIMARY KEY is Date.now() too; foreign keys are not enforced)
\* an INSERT that is refused once the table holds a completion
dbCompleteTaskExclusive(comps, id, ready, io) == ready /\ io /\ comps = <<>>

dbCompleteTaskOk(comps, id, ready, io) ==
  ready /\ io /\ id \notin {comps[i].id : i \in 1..Len(comps)}

dbCompleteTask(comps, taskId, id, at) ==
  Append(comps, [id |-> id, taskId |-> taskId, completedAt |-> at, notes |-> Null])

\* DatabaseService.getCompletions(undefined, date): date(completed_at) = date(?)
dbGetCompletionsOn(comps, date) ==
  SelectSeq(comps, LAMBDA c : IsoDate(c.completedAt) = date)

\* (variant) today taken from the device's local calendar
isTaskCompletedTodayLocal(comps, taskId, t) ==
  \E i \in 1..Len(comps) :
     comps[i].taskId = taskId /\ IsoDate(comps[i].completedAt) = getDateString(t, tz)

\* (variant) a completion counts only if recorded at this very instant
isTaskCompletedNow(comps, taskId, t) ==
  \E i \in 1..Len(comps) : comps[i].taskId = taskId /\ comps[i].completedAt = t

\* DatabaseService.isTaskCompletedToday: today is the ISO (UTC) date of now
isTaskCompletedToday(comps, taskId, t) ==
  \E i \in 1..Len(comps) :
     comps[i].taskId = taskId /\ IsoDate(comps[i].completedAt) = IsoDate(t)

-----------------------------------------------------------------------------
(* Settings (settingsService.getSettings never throws: any read error      *)
(* yields the defaults), and the outcome of the INSERTs of one operation.  *)
(* A plan says which write attempts of the operation fail in storage and   *)
(* after which attempts the millisecond clock has not moved on.            *)

WriteIo(plan, k) == plan.mode # "all" /\ k \notin plan.fails

ClockAfter(plan, k, clk) == IF k \in plan.stalls THEN clk ELSE clk + 1

-----------------------------------------------------------------------------
(* Instance generation (TaskService) *)

maxInstances == 365

\* (variant) the instance as a dated copy of the definition
InstanceAsCopy(task, cursor, zone) ==
  [task EXCEPT !.dueDate = getDateString(cursor, zone)]

\* the non-recurring instance built for one cursor date
Instance(task, cursor, zone) ==
  [title |-> task.title,
   description |-> task.description,
   type |-> task.type,
   dueDate |-> getDateString(cursor, zone),
   dueTime |-> task.dueTime,
   isRecurring |-> FALSE,
   recurrencePattern |-> Undefined,
   recurrenceInterval |-> 0,
   priority |-> task.priority,
   categoryId |-> task.categoryId]

\* (variant) the task kept for the caller is the latest one created
TryCreateKeepLast(st, instance, t, ready, plan) ==
  LET id == DateNow(t, st.clk)
      ok == dbCreateTaskOk(st.table, id, ready, WriteIo(plan, st.k))
  IN  [st EXCEPT
         !.table = IF ok THEN dbCreateTask(st.table, instance, id) ELSE @,
         !.first = IF ok THEN <<CreatedTask(instance, id)>> ELSE @,
         !.count = IF ok THEN @ + 1 ELSE @,
         !.k = @ + 1,
         !.clk = ClockAfter(plan, st.k, @),
         !.log = Append(@, [date |-> instance.dueDate, ok |-> ok, id |-> id,
                            cur |-> st.cur])]

\* one attempt to persist `instance`: st is the loop's state
\* (table, first created task, created count, attempt number, clock, log)
TryCreate(st, instance, t, ready, plan) ==
  LET id == DateNow(t, st.clk)
      ok == dbCreateTaskOk(st.table, id, ready, WriteIo(plan, st.k))
  IN  [st EXCEPT
         !.table = IF ok THEN dbCreateTask(st.table, instance, id) ELSE @,
         !.first = IF ok /\ @ = <<>> THEN <<CreatedTask(instance, id)>> ELSE @,
         !.count = IF ok THEN @ + 1 ELSE @,
         !.k = @ + 1,
         !.clk = ClockAfter(plan, st.k, @),
         !.log = Append(@, [date |-> instance.dueDate, ok |-> ok, id |-> id,
                            cur |-> st.cur])]

LoopStart(table, clk, cur) ==
  [table |-> table, first |-> <<>>, count |-> 0, k |-> 1, clk |-> clk, log |-> <<>>,
   cur |-> cur, gen |-> <<>>]

\* The loops below run n iterations by halving n, so that a loop of
\* maxInstances iterations nests only a few evaluations deep; an iteration
\* whose loop condition is false changes nothing.  The state after the first
\* half is bound as the element of a singleton set, so that it is computed
\* once.

\* (variant) the loop also ends at the first failed write
CreateCondUntilFailure(st, endDate) ==
  /\ st.cur <= endDate
  /\ st.count < maxInstances
  /\ \A i \in 1..Len(st.log) : st.log[i].ok

\* while (currentDate <= endDate && instanceCount < maxInstances) of
\* createRecurringTaskWithInstances: the condition, and one iteration
CreateCond(st, endDate) == st.cur <= endDate /\ st.count < maxInstances

CreateStep(task, endDate, zone, t, ready, plan, st) ==
  IF ~CreateCond(st, endDate) THEN st
  ELSE [TryCreate(st, Instance(task, st.cur, zone), t, ready, plan) EXCEPT
          !.cur = getNextRecurrenceDate(st.cur, task.recurrencePattern,
                                        task.recurrenceInterval, zone)]

RECURSIVE CreateLoop(_, _, _, _, _, _, _, _)
CreateLoop(task, endDate, zone, t, ready, plan, n, st) ==
  IF n = 0 \/ ~CreateCond(st, endDate) THEN st
  ELSE IF n = 1 THEN CreateStep(task, endDate, zone, t, ready, plan, st)
  ELSE CHOOSE r \in {CreateLoop(task, endDate, zone, t, ready, plan, n - n \div 2, mid) :
                      mid \in {CreateLoop(task, endDate, zone, t, ready, plan,
                                          n \div 2, st)}} : TRUE

\* the cursor does not move: such a loop ends only by counting to maxInstances
NoAdvance(pattern, interval) ==
  pattern \notin Patterns \/ (pattern = "custom" /\ interval = 0)

\* an upper bound on the iterations of the loop under `plan`: maxInstances
\* successful writes and the failed ones (every pattern that moves the cursor
\* moves it by a day or more)
CreateFuel(task, endDate, plan) ==
  maxInstances + Cardinality(plan.fails) + Cardinality(plan.stalls) + 1
  + (IF plan.mode = "all" /\ endDate >= ParseDateOnly(task.dueDate)
     THEN (endDate - ParseDateOnly(task.dueDate)) \div 24 + 1 ELSE 0)

\* createRecurringTaskWithInstances: the final loop state; it throws
\* 'Failed to create any recurring task instances' when first = <<>>
createRecurringTaskWithInstances(table, task, t, zone, h, ready, clk, plan) ==
  CreateLoop(task, AddDays(t, h), zone, t, ready, plan,
             CreateFuel(task, AddDays(t, h), plan),
             LoopStart(table, clk, ParseDateOnly(task.dueDate)))

\* the skip-ahead loop of generateFutureRecurringInstances; s = <<cursor, count>>
SkipCond(s, today) == s[1] <= today /\ s[2] < maxInstances

RECURSIVE SkipLoop(_, _, _, _, _, _)
SkipLoop(s, today, pattern, interval, zone, n) ==
  IF n = 0 \/ ~SkipCond(s, today) THEN s
  ELSE IF n = 1 THEN <<getNextRecurrenceDate(s[1], pattern, interval, zone), s[2] + 1>>
  ELSE CHOOSE r \in {SkipLoop(mid, today, pattern, interval, zone, n - n \div 2) :
                      mid \in {SkipLoop(s, today, pattern, interval, zone, n \div 2)}} :
              TRUE

\* the collecting loop of generateFutureRecurringInstances;
\* s = <<cursor, count, instancesToCreate>>
CollectCond(s, endDate) == s[1] <= endDate /\ s[2] < maxInstances

RECURSIVE CollectLoop(_, _, _, _, _)
CollectLoop(parent, s, endDate, zone, n) ==
  IF n = 0 \/ ~CollectCond(s, endDate) THEN s
  ELSE IF n = 1
  THEN <<getNextRecurrenceDate(s[1], parent.recurrencePattern,
                               parent.recurrenceInterval, zone),
         s[2] + 1,
         Append(s[3], [inst |-> Instance(parent, s[1], zone), cur |-> s[1]])>>
  ELSE CHOOSE r \in {CollectLoop(parent, mid, endDate, zone, n - n \div 2) :
                      mid \in {CollectLoop(parent, s, endDate, zone, n \div 2)}} : TRUE

instancesToCreate(parent, t, zone, h) ==
  LET first == getNextRecurrenceDate(ParseDateOnly(parent.dueDate),
                                     parent.recurrencePattern,
                                     parent.recurrenceInterval, zone)
  IN  CHOOSE r \in {CollectLoop(parent, <<start[1], 0, <<>> >>, AddDays(t, h), zone,
                                maxInstances)[3] :
                     start \in {SkipLoop(<<first, 0>>, LocalMidnight(t, zone),
                                         parent.recurrencePattern,
                                         parent.recurrenceInterval, zone,
                                         maxInstances)}} : TRUE

\* the batch create of generateFutureRecurringInstances: insts[lo..hi]
RECURSIVE BatchCreate(_, _, _, _, _, _, _)
BatchCreate(insts, lo, hi, t, ready, plan, st) ==
  IF lo > hi THEN st
  ELSE IF lo = hi
  THEN TryCreate([st EXCEPT !.cur = insts[lo].cur], insts[lo].inst, t, ready, plan)
  ELSE CHOOSE r \in {BatchCreate(insts, (lo + hi) \div 2 + 1, hi, t, ready, plan, mid) :
                      mid \in {BatchCreate(insts, lo, (lo + hi) \div 2, t, ready,
                                           plan, st)}} : TRUE

generateFutureRecurringInstances(parent, t, zone, h, ready, plan, st) ==
  CHOOSE r \in {BatchCreate(insts, 1, Len(insts), t, ready, plan, st) :
                 insts \in {instancesToCreate(parent, t, zone, h)}} : TRUE

\* generateMissingRecurringInstances, after its first read succeeded:
\* for each task flagged recurring, in getTasks() order; gen lists the tasks
\* for which generateFutureRecurringInstances was called
\* (variant) the instance looked for is dated today
hasInstanceToday(table, recurringTask, t, zone) ==
  LET futureTasks == dbGetTasks(table, getDateString(t, zone))
  IN  \E i \in 1..Len(futureTasks) :
         /\ futureTasks[i].title = recurringTask.title
         /\ futureTasks[i].type = recurringTask.type
         /\ ~futureTasks[i].isRecurring

hasFutureInstance(table, recurringTask, t, zone) ==
  LET futureTasks == dbGetTasks(table, getDateString(AddDays(t, 1), zone))
  IN  \E i \in 1..Len(futureTasks) :
         /\ futureTasks[i].title = recurringTask.title
         /\ futureTasks[i].type = recurringTask.type
         /\ ~futureTasks[i].isRecurring

\* readFail: which getTasks call of the sweep fails (0: none, 1: the first
\* getTasks(), i + 1: the read of tomorrow's tasks for the i-th recurring
\* task); the failure ends the sweep in its catch block
RECURSIVE SweepLoop(_, _, _, _, _, _, _, _, _)
SweepLoop(recurringTasks, i, t, zone, h, ready, plan, readFail, st) ==
  IF i > Len(recurringTasks) \/ readFail = i + 1 THEN st
  ELSE CHOOSE r \in {SweepLoop(recurringTasks, i + 1, t, zone, h, ready, plan,
                                readFail, mid) :
                      mid \in {IF hasFutureInstance(st.table, recurringTasks[i], t, zone)
                               THEN st
                               ELSE generateFutureRecurringInstances(
                                      recurringTasks[i], t, zone, h, ready, plan,
                                      [st EXCEPT !.gen = Append(@, recurringTasks[i].id)])}} :
              TRUE

generateMissingRecurringInstances(table, t, zone, h, ready, clk, plan, readFail) ==
  IF ~ready \/ readFail = 1 THEN LoopStart(table, clk, 0)
  ELSE SweepLoop(SelectSeq(dbGetAllTasks(table), LAMBDA r : r.isRecurring), 1,
                 t, zone, h, ready, plan, readFail, LoopStart(table, clk, 0))

-----------------------------------------------------------------------------
(* Outcome of the last call: what the caller got, and a record of what the *)
(* call attempted.  n counts the calls made.                                 *)

NoId == <<0, 0>>

ErrNone == "none"
ErrNotReady == "Database is not ready after waiting. Please restart the app."
ErrNotFound == "Task not found"
ErrAlready == "Task is already completed today"
ErrGeneration == "Failed to create any recurring task instances"
ErrStorage == "storage error"

Result(op, ok, err, id, def, ret, log) ==
  [n |-> res.n + 1, op |-> op, ok |-> ok, err |-> err, id |-> id, def |-> def,
   ret |-> ret, log |-> log, at |-> now, h |-> H,
   was |-> <<Len(tasks), Len(completions)>>]

NoResult ==
  [n |-> 0, op |-> "none", ok |-> TRUE, err |-> ErrNone, id |-> NoId, def |-> <<>>,
   ret |-> <<>>, log |-> <<>>, at |-> 0, h |-> 0, was |-> <<0, 0>>]

-----------------------------------------------------------------------------
(* TaskService operations, each a whole call *)

IsRecurringDefinition(task) == task.isRecurring /\ ~FalsyStr(task.recurrencePattern)

\* TaskService.createTask
CreateTask(task, plan) ==
  /\ pc = "ready"
  /\ IF ~dbReady
     THEN /\ res' = Result("createTask", FALSE, ErrNotReady, NoId, <<task>>, <<>>, <<>>)
          /\ UNCHANGED <<tasks, ms>>
     ELSE IF IsRecurringDefinition(task)
     THEN /\ ~(NoAdvance(task.recurrencePattern, task.recurrenceInterval)
               /\ plan.mode = "all")
          /\ \E st \in {createRecurringTaskWithInstances(tasks, task, now, tz, H,
                                                          dbReady, ms, plan)} :
                 /\ tasks' = st.table
                 /\ ms' = st.clk
                 /\ res' = IF st.first = <<>>
                           THEN Result("createTask", FALSE, ErrGeneration, NoId,
                                       <<task>>, <<>>, st.log)
                           ELSE Result("createTask", TRUE, ErrNone, st.first[1].id,
                                       <<task>>, st.first, st.log)
     ELSE \E st \in {TryCreate(LoopStart(tasks, ms, 0), task, now, dbReady, plan)} :
              /\ tasks' = st.table
              /\ ms' = st.clk
              /\ res' = IF st.first = <<>>
                        THEN Result("createTask", FALSE, ErrStorage, NoId,
                                    <<task>>, <<>>, st.log)
                        ELSE Result("createTask", TRUE, ErrNone, st.first[1].id,
                                    <<task>>, st.first, st.log)
  /\ UNCHANGED <<tz, now, H, completions, dbReady, appReady, pc>>

\* TaskService.getTaskById: the row with that id, if any
\* a lookup that does not compare ids
getAnyTask(table, id) == dbGetAllTasks(table)

getTaskById(table, id) == SelectSeq(dbGetAllTasks(table), LAMBDA r : r.id = id)

\* TaskService.completeTask; ioFail names the storage call that fails
\* (0: none, 1: getTasks, 2: isTaskCompletedToday, 3: the INSERT)
CompleteTask(taskId, ioFail, stall) ==
  /\ pc = "ready"
  /\ LET cid == DateNow(now, ms)
         err == IF ~dbReady \/ ioFail = 1 THEN ErrStorage
                ELSE IF getTaskById(tasks, taskId) = <<>> THEN ErrNotFound
                ELSE IF ioFail = 2 THEN ErrStorage
                ELSE IF isTaskCompletedToday(completions, taskId, now) THEN ErrAlready
                ELSE IF ~dbCompleteTaskOk(completions, cid, dbReady, ioFail # 3)
                     THEN ErrStorage
                ELSE ErrNone
     IN  /\ completions' = IF err = ErrNone
                           THEN dbCompleteTask(completions, taskId, cid, now)
                           ELSE completions
         /\ ms' = IF err = ErrNone /\ ~stall THEN ms + 1 ELSE ms
         /\ res' = Result("completeTask", err = ErrNone, err, taskId, <<>>, <<>>, <<>>)
  /\ UNCHANGED <<tz, now, H, tasks, dbReady, appReady, pc>>

\* TaskService.updateTask
UpdateTask(id, updates, io) ==
  /\ pc = "ready"
  /\ IF dbReady /\ io
     THEN /\ tasks' = dbUpdateTask(tasks, id, updates)
          /\ res' = Result("updateTask", TRUE, ErrNone, id, <<>>, <<>>, <<>>)
     ELSE /\ tasks' = tasks
          /\ res' = Result("updateTask", FALSE, ErrStorage, id, <<>>, <<>>, <<>>)
  /\ UNCHANGED <<tz, now, ms, H, completions, dbReady, appReady, pc>>

\* TaskService.deleteTask; ioFail names the DELETE that fails (0: none)
DeleteTask(id, ioFail) ==
  /\ pc = "ready"
  /\ LET bad == IF dbReady THEN ioFail ELSE 1
     IN  /\ completions' = IF bad = 1 THEN completions
                           ELSE dbDeleteCompletionsOf(completions, id)
         /\ tasks' = IF bad = 0 THEN dbDeleteTaskRow(tasks, id) ELSE tasks
         /\ res' = Result("deleteTask", bad = 0, IF bad = 0 THEN ErrNone ELSE ErrStorage,
                          id, <<>>, <<>>, <<>>)
  /\ UNCHANGED <<tz, now, ms, H, dbReady, appReady, pc>>

-----------------------------------------------------------------------------
(* Dashboard metrics *)

\* DatabaseService.getOverdueTasks: today is the ISO (UTC) date, the current
\* time the local one (the model keeps the hour of HH:MM)
dbGetOverdueTasks(table, comps, t, zone) ==
  SelectSeq(OrderByDue(table),
            LAMBDA r :
              /\ \/ r.dueDate < IsoDate(t)
                 \/ r.dueDate = IsoDate(t) /\ r.dueTime # NoTime
                    /\ r.dueTime < LocalHour(t, zone)
              /\ ~\E i \in 1..Len(comps) :
                    comps[i].taskId = r.id /\ IsoDate(comps[i].completedAt) = r.dueDate)

\* for (let i = 0; i < 365; i++)
StreakDays == 365

StreakStart == [streak |-> 0, stopped |-> FALSE]

\* (variant) a day with no task is counted like any other day
StreakDayNoSkip(table, comps, t, zone, i, s) ==
  LET dateStr == getDateString(AddDays(t, 0 - i), zone)
  IN  IF s.stopped THEN s
      ELSE IF Len(dbGetCompletionsOn(comps, dateStr)) = Len(dbGetTasks(table, dateStr))
      THEN [s EXCEPT !.streak = @ + 1]
      ELSE [s EXCEPT !.stopped = TRUE]

\* iteration i of the loop of calculateStreak; `stopped` is its break
StreakDay(table, comps, t, zone, i, s) ==
  LET dateStr == getDateString(AddDays(t, 0 - i), zone)
  IN  IF s.stopped THEN s
      ELSE IF Len(dbGetTasks(table, dateStr)) = 0 THEN s
      ELSE IF Len(dbGetCompletionsOn(comps, dateStr)) = Len(dbGetTasks(table, dateStr))
      THEN [s EXCEPT !.streak = @ + 1]
      ELSE [s EXCEPT !.stopped = TRUE]

\* iterations lo..hi
RECURSIVE StreakLoop(_, _, _, _, _, _, _)
StreakLoop(table, comps, t, zone, lo, hi, s) ==
  IF lo > hi \/ s.stopped THEN s
  ELSE IF lo = hi THEN StreakDay(table, comps, t, zone, lo, s)
  ELSE CHOOSE r \in {StreakLoop(table, comps, t, zone, (lo + hi) \div 2 + 1, hi, mid) :
                      mid \in {StreakLoop(table, comps, t, zone, lo, (lo + hi) \div 2,
                                          s)}} : TRUE

calculateStreak(table, comps, t, zone) ==
  StreakLoop(table, comps, t, zone, 0, StreakDays - 1, StreakStart).streak

\* Math.round(completed / total * 100) of two counts
\* a rate that drops the fraction instead of rounding it
TruncatedRate(completed, total) ==
  IF total > 0 THEN (100 * completed) \div total ELSE 0

RoundedRate(completed, total) ==
  IF total > 0 THEN (200 * completed + total) \div (2 * total) ELSE 0

\* TaskService.getDashboardMetrics
GetDashboardMetrics(ioFail) ==
  /\ pc = "ready"
  /\ IF ~dbReady
     THEN res' = Result("getDashboardMetrics", FALSE, ErrNotReady, NoId, <<>>, <<>>, <<>>)
     ELSE IF ioFail
     THEN res' = Result("getDashboardMetrics", FALSE, ErrStorage, NoId, <<>>, <<>>, <<>>)
     ELSE \E today \in {getDateString(now, tz)} :
            \E totalToday \in {Len(dbGetTasks(tasks, today))},
               completedToday \in {Len(dbGetCompletionsOn(completions, today))} :
              res' = Result("getDashboardMetrics", TRUE, ErrNone, NoId, <<>>,
                            <<[todayTasks |-> totalToday,
                               completedToday |-> completedToday,
                               overdueTasks |->
                                 Len(dbGetOverdueTasks(tasks, completions, now, tz)),
                               completionRate |-> RoundedRate(completedToday, totalToday),
                               currentStreak |->
                                 calculateStreak(tasks, completions, now, tz)]>>,
                            <<>>)
  /\ UNCHANGED <<tz, now, ms, H, tasks, completions, dbReady, appReady, pc>>

\* a read whose failure is swallowed
dbGetTasksSwallows(ready, io) == FALSE

\* DatabaseService.getTasks throws when the database is not initialised or
\* the query fails
dbGetTasksThrows(ready, io) == ~ready \/ ~io

\* TaskService.getTasks: all tasks, or the tasks due on a date
GetTasks(dated, date, io) ==
  /\ pc = "ready"
  /\ res' = IF ~dbReady
            THEN Result("getTasks", FALSE, ErrNotReady, NoId, <<>>, <<>>, <<>>)
            ELSE IF dbGetTasksThrows(dbReady, io)
            THEN Result("getTasks", FALSE, ErrStorage, NoId, <<>>, <<>>, <<>>)
            ELSE Result("getTasks", TRUE, ErrNone, NoId, <<>>,
                        IF dated THEN dbGetTasks(tasks, date) ELSE dbGetAllTasks(tasks),
                        <<>>)
  /\ UNCHANGED <<tz, now, ms, H, tasks, completions, dbReady, appReady, pc>>

\* TaskService.getTodayTasks
GetTodayTasks(io) ==
  /\ pc = "ready"
  /\ res' = IF ~dbReady
            THEN Result("getTodayTasks", FALSE, ErrNotReady, NoId, <<>>, <<>>, <<>>)
            ELSE IF dbGetTasksThrows(dbReady, io)
            THEN Result("getTodayTasks", FALSE, ErrStorage, NoId, <<>>, <<>>, <<>>)
            ELSE Result("getTodayTasks", TRUE, ErrNone, NoId, <<>>,
                        dbGetTasks(tasks, getDateString(now, tz)), <<>>)
  /\ UNCHANGED <<tz, now, ms, H, tasks, completions, dbReady, appReady, pc>>

-----------------------------------------------------------------------------
(* Application lifecycle (App.initializeApp) and the passing of time *)

\* the process is started: nothing initialised, storage as it was left
Launch ==
  /\ pc = "off"
  /\ pc' = "boot"
  /\ UNCHANGED <<tz, now, ms, H, tasks, completions, dbReady, appReady, res>>

\* await database.init(): on failure initializeApp's catch block shows the app
DbInit(ok) ==
  /\ pc = "boot"
  /\ dbReady' = ok
  /\ appReady' = ~ok
  /\ pc' = IF ok THEN "sweep" ELSE "ready"
  /\ UNCHANGED <<tz, now, ms, H, tasks, completions, res>>

\* (variant) the catch block rethrows
sweepRethrows(readFailed) == readFailed

\* the catch block of generateMissingRecurringInstances logs the error and
\* rethrows nothing: does a failed read reach the caller?
sweepRaises(readFailed) == FALSE

\* await taskService.generateMissingRecurringInstances(); setAppReady(true)
\* (were the sweep to raise, initializeApp's catch block would show the app too)
Sweep(plan, readFail) ==
  /\ pc = "sweep"
  /\ \E st \in {generateMissingRecurringInstances(tasks, now, tz, H, dbReady, ms,
                                                  plan, readFail)},
        raised \in {sweepRaises(readFail \in
                       1..(Len(SelectSeq(tasks, LAMBDA r : r.isRecurring)) + 1))} :
         /\ tasks' = st.table
         /\ ms' = st.clk
         /\ res' = Result("sweep", ~raised,
                          IF readFail \in 1..(Len(SelectSeq(tasks, LAMBDA r : r.isRecurring)) + 1)
                             \/ \E i \in 1..Len(st.log) : ~st.log[i].ok
                          THEN ErrStorage ELSE ErrNone,
                          NoId, <<>>, st.gen, st.log)
  /\ appReady' = TRUE
  /\ pc' = "ready"
  /\ UNCHANGED <<tz, now, H, completions, dbReady>>

\* the app is closed
Quit ==
  /\ pc = "ready"
  /\ pc' = "off"
  /\ dbReady' = FALSE
  /\ appReady' = FALSE
  /\ UNCHANGED <<tz, now, ms, H, tasks, completions, res>>

\* twelve hours pass
AdvanceTime ==
  /\ pc \in {"ready", "off"}
  /\ now' = now + 12
  /\ ms' = 0
  /\ UNCHANGED <<tz, H, tasks, completions, dbReady, appReady, pc, res>>

-----------------------------------------------------------------------------
(* Inputs *)

\* zones: UTC-6, UTC, UTC+6
Zones == {0 - 6, 0, 6}

\* 2024-01-30T03:00Z
StartInstant == DaysFromCivil(2024, 1, 30) * 24 + 3

NoFail == [mode |-> "none", fails |-> {}, stalls |-> {}]
AllFail == [mode |-> "all", fails |-> {}, stalls |-> {}]
FailAt(S) == [mode |-> "some", fails |-> S, stalls |-> {}]
StallAt(S) == [mode |-> "none", fails |-> {}, stalls |-> S]

\* what CreateTaskScreen submits: the due date is getDateString of the picked day
Definition(title, due, recurring, pattern, interval) ==
  [title |-> title, description |-> "", type |-> "task", dueDate |-> due,
   dueTime |-> NoTime, isRecurring |-> recurring, recurrencePattern |-> pattern,
   recurrenceInterval |-> interval, priority |-> "medium", categoryId |-> Undefined]

Today == getDateString(now, tz)

PlainDefs == {Definition("a", Today + d, FALSE, Undefined, 0) : d \in {0 - 1, 0}}

RecurringDefs ==
  {Definition("a", Today, TRUE, "daily", 0), Definition("a", Today, TRUE, Undefined, 0)}

Edits ==
  {[title |-> "b"],
   [isRecurring |-> TRUE, recurrencePattern |-> "daily", recurrenceInterval |-> 0]}

-----------------------------------------------------------------------------
(* The running application: user operations and the passing of time, from  *)
(* a fresh install whose startup has finished (the database may have       *)
(* failed to open: the app is shown all the same).                         *)

CreateCall ==
  \E task \in PlainDefs \cup RecurringDefs, plan \in {NoFail, FailAt({1})} :
     res.n < MaxCalls /\ CreateTask(task, plan) /\ Len(tasks') <= MaxTasks

CompleteCall ==
  \E id \in Ids(tasks) \cup {NoId}, ioFail \in {0, 3} :
     res.n < MaxCalls /\ Len(completions) < MaxCompletions
     /\ CompleteTask(id, ioFail, FALSE)

UpdateCall ==
  \E id \in Ids(tasks) \cup {NoId}, updates \in Edits :
     res.n < MaxCalls /\ UpdateTask(id, updates, TRUE)

DeleteCall ==
  \E id \in Ids(tasks) \cup {NoId}, ioFail \in {0, 2} :
     res.n < MaxCalls /\ DeleteTask(id, ioFail)

\* time is followed while calls remain to be made
TimePasses ==
  res.n < MaxCalls /\ now < StartInstant + 12 * MaxAdvance /\ AdvanceTime

Init ==
  /\ tz \in Zones
  /\ now = StartInstant
  /\ ms = 0
  /\ H = 1
  /\ tasks = <<>>
  /\ completions = <<>>
  /\ dbReady \in BOOLEAN
  /\ appReady = TRUE
  /\ pc = "ready"
  /\ res = NoResult

Next == TimePasses \/ CreateCall \/ CompleteCall \/ UpdateCall \/ DeleteCall

Spec == Init /\ [][Next]_vars

-----------------------------------------------------------------------------
(* Instance generation and the startup sweep: one createTask call, an edit *)
(* of a stored task, and restarts of the app, for every zone, time of day  *)
(* and horizon.                                                            *)

GenPatterns ==
  {<<"daily", 0>>, <<"weekly", 0>>, <<"monthly", 0>>, <<"custom", 2>>, <<"custom", 0>>}

GenDefs ==
  {Definition("a", Today + d, TRUE, p[1], p[2]) :
     d \in {0 - 1, 0, H + 1}, p \in GenPatterns}
  \cup {Definition("a", Today - d, FALSE, Undefined, 0) : d \in {1, 400}}
  \cup {[Definition("a", Today, TRUE, "daily", 0) EXCEPT
           !.description = "walk", !.dueTime = 9, !.priority = "high",
           !.categoryId = "home", !.type = "chore"]}

GenPlans ==
  {NoFail, AllFail, StallAt({1})} \cup {FailAt(S) : S \in SUBSET (1..MaxFailIdx) \ {{}}}

GenEdits ==
  {[isRecurring |-> TRUE, recurrencePattern |-> p[1], recurrenceInterval |-> p[2]] :
     p \in {<<"daily", 0>>, <<"weekly", 0>>, <<"custom", 0>>}}

GenCreate ==
  \E task \in GenDefs, plan \in GenPlans :
     res.n = 0 /\ CreateTask(task, plan)

GenEdit ==
  \E id \in Ids(tasks), updates \in GenEdits :
     res.n = 1 /\ Len(tasks) = 1 /\ UpdateTask(id, updates, TRUE)

GenQuit == res.n \in 1..2 /\ Quit

GenDbInit == \E ok \in BOOLEAN : DbInit(ok)

GenSweep ==
  \E plan \in {NoFail, FailAt({1}), AllFail}, readFail \in 0..2 : Sweep(plan, readFail)

InitGen ==
  /\ tz \in Zones
  /\ now \in {StartInstant + 6 * k : k \in 0..3}
  /\ ms = 0
  /\ H \in 1..MaxH
  /\ tasks = <<>>
  /\ completions = <<>>
  /\ dbReady = TRUE
  /\ appReady = TRUE
  /\ pc = "ready"
  /\ res = NoResult

NextGen == GenCreate \/ GenEdit \/ GenQuit \/ Launch \/ GenDbInit \/ GenSweep

SpecGen == InitGen /\ [][NextGen]_vars

-----------------------------------------------------------------------------
(* Startup: the app is started, and restarted, over what an earlier run    *)
(* left in storage.  initializeApp is one async function: once started,    *)
(* the event loop runs each of its awaited steps to its end.               *)

\* a task created the day before StartInstant
StoredId == DateNow(StartInstant - 24, 0)

StoredDue == IsoDate(StartInstant) - 1

StoredTask == dbCreateTask(<<>>, Definition("a", StoredDue, FALSE, Undefined, 0), StoredId)

StartEdits ==
  {[isRecurring |-> TRUE, recurrencePattern |-> p, recurrenceInterval |-> 0] :
     p \in {"daily", "weekly"}}

StartTables ==
  {<<>>, StoredTask} \cup {dbUpdateTask(StoredTask, StoredId, e) : e \in StartEdits}

StartQuit == res.n < 2 /\ Quit

InitStart ==
  /\ tz \in Zones
  /\ now \in {StartInstant + 6 * k : k \in 0..3}
  /\ ms = 0
  /\ H = 1
  /\ tasks \in StartTables
  /\ completions = <<>>
  /\ dbReady = FALSE
  /\ appReady = FALSE
  /\ pc = "off"
  /\ res = NoResult

NextStart == Launch \/ GenDbInit \/ GenSweep \/ StartQuit

SpecStart == InitStart /\ [][NextStart]_vars /\ WF_vars(GenDbInit) /\ WF_vars(GenSweep)

-----------------------------------------------------------------------------
(* The dashboard over a history: up to MaxHistoryTasks created a long time  *)
(* ago, due on days around today and around a year ago, and up to          *)
(* MaxHistory completions of them at instants of those days, each within   *)
(* three days of the task's due day.                                       *)

HistoryStart == StartInstant - 24 * 400

\* due days, as offsets from the local day of StartInstant
DueOffsets == {0 - 365, 0 - 364, 0 - 2, 0 - 1, 0}

\* completion instants, as hours before StartInstant
DoneOffsets == {0, 24, 48, 24 * 364, 24 * 365}

RECURSIVE HistoryTasks(_, _)
HistoryTasks(dues, k) ==
  IF dues = <<>> THEN <<>>
  ELSE dbCreateTask(HistoryTasks(SubSeq(dues, 1, Len(dues) - 1), k - 1),
                    Definition("a", dues[Len(dues)], FALSE, Undefined, 0),
                    DateNow(HistoryStart, k - 1))

RECURSIVE HistoryCompletions(_)
HistoryCompletions(done) ==
  IF done = <<>> THEN <<>>
  ELSE LET c == done[Len(done)]
       IN  dbCompleteTask(HistoryCompletions(SubSeq(done, 1, Len(done) - 1)),
                          DateNow(HistoryStart, c[1] - 1),
                          DateNow(StartInstant - c[2], c[1]),
                          StartInstant - c[2])

\* the due days of the tasks in creation order (here: never decreasing)
DueLists(zone) ==
  {dues \in UNION {[1..n -> {LocalDay(StartInstant, zone) + o : o \in DueOffsets}] :
                     n \in 0..MaxHistoryTasks} :
     \A i \in 1..(Len(dues) - 1) : dues[i] <= dues[i + 1]}

\* <<task number, hours ago>> in the order recorded: oldest first, no task
\* twice on one ISO date (completeTask refuses that), and each task
\* completed within three days of its due day
DoneLists(dues) ==
  {done \in UNION {[1..m -> (1..Len(dues)) \X DoneOffsets] : m \in 0..MaxHistory} :
     /\ \A i \in 1..Len(done) :
           /\ IsoDate(StartInstant - done[i][2]) - dues[done[i][1]] <= 3
           /\ dues[done[i][1]] - IsoDate(StartInstant - done[i][2]) <= 3
     /\ \A i \in 1..(Len(done) - 1) :
           \/ done[i][2] > done[i + 1][2]
           \/ done[i][2] = done[i + 1][2] /\ done[i][1] < done[i + 1][1]
     /\ \A i, j \in 1..Len(done) :
           (i # j /\ done[i][1] = done[j][1])
             => IsoDate(StartInstant - done[i][2]) # IsoDate(StartInstant - done[j][2])}

MetricsCall == \E ioFail \in BOOLEAN : res.n = 0 /\ GetDashboardMetrics(ioFail)

InitStreak ==
  /\ tz \in Zones
  /\ now = StartInstant
  /\ ms = 0
  /\ H = 1
  /\ \E dues \in DueLists(tz) :
        /\ tasks = HistoryTasks(dues, Len(dues))
        /\ \E done \in DoneLists(dues) : completions = HistoryCompletions(done)
  /\ dbReady = TRUE
  /\ appReady = TRUE
  /\ pc = "ready"
  /\ res = NoResult

NextStreak == MetricsCall

SpecStreak == InitStreak /\ [][NextStreak]_vars

-----------------------------------------------------------------------------
(* Specification SpecFail: the operations of the service, each with every
   storage call it makes allowed to fail *)

FailCreate ==
  \E task \in PlainDefs, plan \in {NoFail, FailAt({1})} :
     res.n < MaxCalls /\ CreateTask(task, plan) /\ Len(tasks') <= MaxTasks

FailGetTasks ==
  \E dated \in BOOLEAN, io \in BOOLEAN : res.n < MaxCalls /\ GetTasks(dated, Today, io)

FailGetTodayTasks == \E io \in BOOLEAN : res.n < MaxCalls /\ GetTodayTasks(io)

FailComplete ==
  \E id \in Ids(tasks) \cup {NoId}, ioFail \in 0..3 :
     res.n < MaxCalls /\ Len(completions) < MaxCompletions
     /\ CompleteTask(id, ioFail, FALSE)

FailUpdate ==
  \E id \in Ids(tasks) \cup {NoId}, updates \in Edits, io \in BOOLEAN :
     res.n < MaxCalls /\ UpdateTask(id, updates, io)

FailDelete ==
  \E id \in Ids(tasks) \cup {NoId}, ioFail \in 0..2 :
     res.n < MaxCalls /\ DeleteTask(id, ioFail)

FailMetrics == \E ioFail \in BOOLEAN : res.n < MaxCalls /\ GetDashboardMetrics(ioFail)

NextFail ==
  \/ FailCreate \/ FailGetTasks \/ FailGetTodayTasks \/ FailComplete
  \/ FailUpdate \/ FailDelete \/ FailMetrics

SpecFail == Init /\ [][NextFail]_vars

-----------------------------------------------------------------------------
(* Specification SpecRecur: getNextRecurrenceDate applied twice to a date *)

\* the dates tried: first days, mid-month days and the 28th to 31st of
\* months of every length, in a leap year and in a common year
RecurYears == {2023, 2024}
RecurMonths == {1, 2, 3, 4, 11, 12}
RecurDoms == {1, 15, 28, 29, 30, 31}

RecurDays ==
  {day \in {DaysFromCivil(y, m, d) : y \in RecurYears, m \in RecurMonths, d \in RecurDoms} :
     CivilFromDays(day).d \in RecurDoms}

\* the cursor of a generation loop: new Date(dueDate), then
\* getNextRecurrenceDate of the result
NextOccurrenceTwice(pattern) ==
  /\ pc = "ready"
  /\ \E once \in {getNextRecurrenceDate(now, pattern, 0, tz)} :
       \E twice \in {getNextRecurrenceDate(once, pattern, 0, tz)} :
          res' = Result("getNextRecurrenceDate", TRUE, ErrNone, NoId, <<pattern>>,
                        <<once, twice>>, <<>>)
  /\ UNCHANGED <<tz, now, ms, H, tasks, completions, dbReady, appReady, pc>>

RecurCall == \E pattern \in Patterns \ {"custom"} : res.n = 0 /\ NextOccurrenceTwice(pattern)

InitRecur ==
  /\ tz \in Zones
  /\ now \in {ParseDateOnly(day) : day \in RecurDays}
  /\ ms = 0
  /\ H = 1
  /\ tasks = <<>>
  /\ completions = <<>>
  /\ dbReady = TRUE
  /\ appReady = TRUE
  /\ pc = "ready"
  /\ res = NoResult

NextRecur == RecurCall

SpecRecur == InitRecur /\ [][NextRecur]_vars

-----------------------------------------------------------------------------
(* Specification SpecLate: analyzeTaskCompletion of a stored task completed
   at the instant <<now, ms>> (hour, millisecond within the hour) *)

MsPerHour == 1000 * 60 * 60

\* completionAnalytics.analyzeTaskCompletion; completedAt is <<hour, ms>>,
\* hoursLate is kept in milliseconds
analyzeTaskCompletion(task, completedAt, zone) ==
  LET mid  == LocalMidnight(ParseDateOnly(task.dueDate), zone)
      due  == IF task.dueTime # NoTime
              THEN <<mid + task.dueTime, 0>>
              ELSE <<mid + 23, (59 * 60 + 59) * 1000 + 999>>
      late == \/ completedAt[1] > due[1]
              \/ completedAt[1] = due[1] /\ completedAt[2] > due[2]
  IN  IF late
      THEN LET lateDurationMs ==
                 (completedAt[1] - due[1]) * MsPerHour + (completedAt[2] - due[2])
           IN  [wasCompletedLate |-> TRUE, hoursLate |-> lateDurationMs,
                daysLate |-> lateDurationMs \div (MsPerHour * 24),
                completionDateTime |-> completedAt, dueDateTime |-> due]
      ELSE [wasCompletedLate |-> FALSE, hoursLate |-> Undefined,
            daysLate |-> Undefined,
            completionDateTime |-> completedAt, dueDateTime |-> due]

\* TaskService.getTaskCompletionHistory for a task completed just now
AnalyzeCompletion ==
  /\ pc = "ready"
  /\ Len(tasks) = 1
  /\ res' = Result("analyzeTaskCompletion", TRUE, ErrNone, tasks[1].id, <<>>,
                   <<analyzeTaskCompletion(tasks[1], DateNow(now, ms), tz)>>, <<>>)
  /\ UNCHANGED <<tz, now, ms, H, tasks, completions, dbReady, appReady, pc>>

LateCall == res.n = 0 /\ AnalyzeCompletion

\* completion instants: the hours from the evening before the due date to
\* three days after it, at the start, just after the start and at the last
\* millisecond of the hour
LateHours == (0 - 8)..80
LateMs == {0, 1, MsPerHour - 1}
LateDueTimes == {NoTime, 9}

InitLate ==
  /\ tz \in Zones
  /\ \E dueTime \in LateDueTimes :
        tasks = dbCreateTask(<<>>, [Definition("a", StoredDue, FALSE, Undefined, 0)
                                      EXCEPT !.dueTime = dueTime], StoredId)
  /\ now \in {ParseDateOnly(StoredDue) + k : k \in LateHours}
  /\ ms \in LateMs
  /\ H = 1
  /\ completions = <<>>
  /\ dbReady = TRUE
  /\ appReady = TRUE
  /\ pc = "ready"
  /\ res = NoResult

NextLate == LateCall

SpecLate == InitLate /\ [][NextLate]_vars

-----------------------------------------------------------------------------
(* Specification SpecStats: analyzeCompletionStats of the recent completions
   of a stored history *)

StatsDays == 30

Reverse(seq) == [i \in 1..Len(seq) |-> seq[Len(seq) + 1 - i]]

\* DatabaseService.getRecentCompletionTrends: the completions of the last 30
\* days, ORDER BY completed_at DESC (rows are stored in the order recorded)
dbRecentCompletions(comps, t) ==
  Reverse(SelectSeq(comps, LAMBDA c : /\ IsoDate(c.completedAt) >= IsoDate(AddDays(t, 0 - StatsDays))
                                      /\ IsoDate(c.completedAt) <= IsoDate(t)))

\* hoursLate (in milliseconds) of the late completions, in list order;
\* stored completion instants are whole hours here
lateHours(table, comps, zone) ==
  LET found == SelectSeq(comps, LAMBDA c : getTaskById(table, c.taskId) # <<>>)
      analytics == [i \in 1..Len(found) |->
                      analyzeTaskCompletion(getTaskById(table, found[i].taskId)[1],
                                            <<found[i].completedAt, 0>>, zone)]
      late == SelectSeq(analytics, LAMBDA a : a.wasCompletedLate)
  IN  [i \in 1..Len(late) |-> late[i].hoursLate]

\* Math.round of hours given in milliseconds
RoundHours(msLate) == (2 * msLate + MsPerHour) \div (2 * MsPerHour)

roundedLateHours(table, comps, zone) ==
  CHOOSE r \in {[i \in 1..Len(hs) |-> RoundHours(hs[i])] : hs \in {lateHours(table, comps, zone)}} :
     TRUE

hourCount(rounded, hour) == Cardinality({i \in 1..Len(rounded) : rounded[i] = hour})

\* Object.entries(hourCounts): integer keys are enumerated in ascending
\* numeric order, whatever the order in which they were added
RECURSIVE entriesAscending(_)
entriesAscending(hours) ==
  IF hours = {} THEN <<>>
  ELSE LET least == CHOOSE h \in hours : \A g \in hours : h <= g
       IN  <<least>> \o entriesAscending(hours \ {least})

ObjectEntries(rounded) == entriesAscending({rounded[i] : i \in 1..Len(rounded)})

\* entries.sort(([, a], [, b]) => b - a): stable, by descending count
RECURSIVE sortByCount(_, _)
sortByCount(entries, rounded) ==
  IF entries = <<>> THEN <<>>
  ELSE LET k == CHOOSE i \in 1..Len(entries) :
                   /\ \A j \in 1..Len(entries) :
                         hourCount(rounded, entries[j]) <= hourCount(rounded, entries[i])
                   /\ \A j \in 1..(i - 1) :
                         hourCount(rounded, entries[j]) < hourCount(rounded, entries[i])
       IN  <<entries[k]>>
             \o sortByCount(SubSeq(entries, 1, k - 1) \o SubSeq(entries, k + 1, Len(entries)),
                            rounded)

mostCommonLateHours(rounded) ==
  LET sorted == sortByCount(ObjectEntries(rounded), rounded)
  IN  SubSeq(sorted, 1, IF Len(sorted) < 3 THEN Len(sorted) ELSE 3)

\* TaskService.getCompletionStats
GetCompletionStats ==
  /\ pc = "ready"
  /\ \E rounded \in {roundedLateHours(tasks, dbRecentCompletions(completions, now), tz)} :
        res' = Result("getCompletionStats", TRUE, ErrNone, NoId, <<>>,
                      <<[lateCompletions |-> Len(rounded),
                         mostCommonLateHours |-> mostCommonLateHours(rounded)]>>,
                      rounded)
  /\ UNCHANGED <<tz, now, ms, H, tasks, completions, dbReady, appReady, pc>>

StatsCall == res.n = 0 /\ GetCompletionStats

NextStats == StatsCall

SpecStats == InitStreak /\ [][NextStats]_vars

-----------------------------------------------------------------------------
(* Specification SpecConc: completeTask and deleteTask calls that overlap.
   A call runs from one await to the next without interruption; each
   storage call is one step.  pc maps a call to its position. *)

MaxConc == 2

Calls == 1..MaxConc

Idle == [op |-> "none", at |-> "idle"]

At(c, op, at) == pc[c].op = op /\ pc[c].at = at

Goto(c, op, at) == pc' = [pc EXCEPT ![c] = [op |-> op, at |-> at]]

\* completeTask up to its first await: getTaskById reads the tasks
ConcLookup(c) ==
  /\ pc[c] = Idle
  /\ IF getTaskById(tasks, StoredId) = <<>>
     THEN /\ Goto(c, "completeTask", "done")
          /\ res' = Result("completeTask", FALSE, ErrNotFound, StoredId, <<>>, <<>>, <<>>)
     ELSE /\ Goto(c, "completeTask", "found")
          /\ res' = res
  /\ UNCHANGED <<tz, now, ms, H, tasks, completions, dbReady, appReady>>

\* completeTask resumed: isTaskCompletedToday reads the completions
ConcCheck(c) ==
  /\ At(c, "completeTask", "found")
  /\ IF isTaskCompletedToday(completions, StoredId, now)
     THEN /\ Goto(c, "completeTask", "done")
          /\ res' = Result("completeTask", FALSE, ErrAlready, StoredId, <<>>, <<>>, <<>>)
     ELSE /\ Goto(c, "completeTask", "checked")
          /\ res' = res
  /\ UNCHANGED <<tz, now, ms, H, tasks, completions, dbReady, appReady>>

\* completeTask resumed: database.completeTask inserts the completion
\* (the foreign key to tasks is declared but not enforced: no PRAGMA turns
\* it on); the millisecond clock may or may not have moved since the last id
ConcWrite(c, stall) ==
  /\ At(c, "completeTask", "checked")
  /\ Goto(c, "completeTask", "done")
  /\ \E cid \in {DateNow(now, ms)} :
        IF dbCompleteTaskOk(completions, cid, dbReady, TRUE)
        THEN /\ completions' = dbCompleteTask(completions, StoredId, cid, now)
             /\ ms' = IF stall THEN ms ELSE ms + 1
             /\ res' = Result("completeTask", TRUE, ErrNone, StoredId, <<>>, <<>>, <<>>)
        ELSE /\ UNCHANGED <<completions, ms>>
             /\ res' = Result("completeTask", FALSE, ErrStorage, StoredId, <<>>, <<>>, <<>>)
  /\ UNCHANGED <<tz, now, H, tasks, dbReady, appReady>>

\* deleteTask up to its first await: DELETE FROM task_completions
ConcDeleteCompletions(c) ==
  /\ pc[c] = Idle
  /\ Goto(c, "deleteTask", "completionsDeleted")
  /\ completions' = dbDeleteCompletionsOf(completions, StoredId)
  /\ UNCHANGED <<tz, now, ms, H, tasks, dbReady, appReady, res>>

\* deleteTask resumed: DELETE FROM tasks
ConcDeleteTask(c) ==
  /\ At(c, "deleteTask", "completionsDeleted")
  /\ Goto(c, "deleteTask", "done")
  /\ tasks' = dbDeleteTaskRow(tasks, StoredId)
  /\ res' = Result("deleteTask", TRUE, ErrNone, StoredId, <<>>, <<>>, <<>>)
  /\ UNCHANGED <<tz, now, ms, H, completions, dbReady, appReady>>

\* time passes between two steps
ConcTick ==
  /\ now < StartInstant + 12 * MaxAdvance
  /\ now' = now + 12
  /\ ms' = 0
  /\ UNCHANGED <<tz, H, tasks, completions, dbReady, appReady, pc, res>>

ConcComplete ==
  \E c \in Calls : ConcLookup(c) \/ ConcCheck(c) \/ \E stall \in BOOLEAN : ConcWrite(c, stall)

ConcDelete == \E c \in Calls : ConcDeleteCompletions(c) \/ ConcDeleteTask(c)

InitConc ==
  /\ tz \in Zones
  /\ now = StartInstant
  /\ ms = 0
  /\ H = 1
  /\ tasks = StoredTask
  /\ completions = <<>>
  /\ dbReady = TRUE
  /\ appReady = TRUE
  /\ pc = [c \in Calls |-> Idle]
  /\ res = NoResult

NextConc == ConcComplete \/ ConcDelete \/ ConcTick

SpecConc == InitConc /\ [][NextConc]_vars

-----------------------------------------------------------------------------
(* Specification SpecLoop: the generation loop of
   createRecurringTaskWithInstances, one iteration a step.  While the loop
   runs, res keeps the definition and the plan of write failures (def), the
   loop's variables (ret) and the attempts made (log). *)

\* iterations followed per run
MaxIterations == 367

LoopTask == res.def[1]

LoopPlan == res.def[2]

LoopEnd == AddDays(res.at, res.h)

LoopState ==
  [table |-> tasks, first |-> res.ret[1].first, count |-> res.ret[1].count,
   k |-> Len(res.log) + 1, clk |-> ms, log |-> res.log, cur |-> res.ret[1].cur,
   gen |-> <<>>]

\* createTask of a recurring definition, up to the first test of the loop
LoopBegin(task, plan) ==
  /\ pc = "ready"
  /\ res.n = 0
  /\ dbReady
  /\ IsRecurringDefinition(task)
  /\ pc' = "generating"
  /\ res' = Result("createTask", TRUE, ErrNone, NoId, <<task, plan>>,
                   <<[first |-> <<>>, count |-> 0, cur |-> ParseDateOnly(task.dueDate)]>>,
                   <<>>)
  /\ UNCHANGED <<tz, now, ms, H, tasks, completions, dbReady, appReady>>

\* one iteration: the condition holds, the instance is written or not, the
\* cursor is moved
LoopIteration ==
  /\ pc = "generating"
  /\ Len(res.log) < MaxIterations
  /\ CreateCond(LoopState, LoopEnd)
  /\ \E st \in {CreateStep(LoopTask, LoopEnd, tz, res.at, dbReady, LoopPlan, LoopState)} :
        /\ tasks' = st.table
        /\ ms' = st.clk
        /\ res' = [res EXCEPT !.log = st.log,
                              !.ret = <<[first |-> st.first, count |-> st.count,
                                         cur |-> st.cur]>>]
  /\ UNCHANGED <<tz, now, H, completions, dbReady, appReady, pc>>

\* the condition fails: the loop is left, createTask returns or throws
LoopExit ==
  /\ pc = "generating"
  /\ ~CreateCond(LoopState, LoopEnd)
  /\ pc' = "ready"
  /\ res' = IF res.ret[1].first = <<>>
            THEN [res EXCEPT !.ok = FALSE, !.err = ErrGeneration, !.ret = <<>>]
            ELSE [res EXCEPT !.id = res.ret[1].first[1].id, !.ret = res.ret[1].first]
  /\ UNCHANGED <<tz, now, ms, H, tasks, completions, dbReady, appReady>>

LoopDefs == {Definition("a", Today, TRUE, p[1], p[2]) : p \in {<<"daily", 0>>, <<"custom", 0>>}}

LoopCall == \E task \in LoopDefs, plan \in {NoFail, FailAt({1}), AllFail} : LoopBegin(task, plan)

InitLoop ==
  /\ tz \in Zones
  /\ now = StartInstant
  /\ ms = 0
  /\ H \in 1..MaxH
  /\ tasks = <<>>
  /\ completions = <<>>
  /\ dbReady = TRUE
  /\ appReady = TRUE
  /\ pc = "ready"
  /\ res = NoResult

NextLoop == LoopCall \/ LoopIteration \/ LoopExit

SpecLoop == InitLoop /\ [][NextLoop]_vars

-----------------------------------------------------------------------------
(* Specification SpecSweep: the application is started, and restarted, on a
   storage that holds one task, recurring or not *)

SweepEdits ==
  {[isRecurring |-> TRUE, recurrencePattern |-> p[1], recurrenceInterval |-> p[2]] :
     p \in {<<"daily", 0>>, <<"weekly", 0>>, <<"custom", 2>>}}

\* a task created the day before, due yesterday or today (ISO dates), as
\* created or edited into a recurring task
SweepTables ==
  UNION {{stored} \cup {dbUpdateTask(stored, StoredId, e) : e \in SweepEdits} :
           stored \in {dbCreateTask(<<>>, Definition("a", StoredDue + d, FALSE, Undefined, 0),
                                    StoredId) : d \in 0..1}}

InitSweep ==
  /\ tz \in Zones
  /\ now = StartInstant
  /\ ms = 0
  /\ H \in 1..MaxH
  /\ tasks \in SweepTables
  /\ completions = <<>>
  /\ dbReady = FALSE
  /\ appReady = FALSE
  /\ pc = "off"
  /\ res = NoResult

NextSweep == Launch \/ GenDbInit \/ GenSweep \/ StartQuit

SpecSweep == InitSweep /\ [][NextSweep]_vars

-----------------------------------------------------------------------------
(* Specification SpecReady: ensureDatabaseReady, one wait a step, while
   database.init may complete.  While a call waits, res keeps the operation
   asked for (def) and the waits made (ret); ms is the millisecond clock. *)

maxAttempts == 10

PollDelay == 100

GuardedOps == {"createTask", "getTasks", "getTodayTasks", "getDashboardMetrics"}

\* (variant) one more wait is allowed
pollOnceMore(ready, attempts) == ~ready /\ attempts <= maxAttempts

\* while (!database.isReady() && attempts < maxAttempts)
pollAgain(ready, attempts) == ~ready /\ attempts < maxAttempts

\* a guarded operation is invoked: ensureDatabaseReady up to its first await,
\* or to its end when the database is ready
EnsureBegin(op) ==
  /\ pc = "ready"
  /\ res.n = 0
  /\ pc' = IF pollAgain(dbReady, 0) THEN "waiting" ELSE "ready"
  /\ res' = Result("ensureDatabaseReady", TRUE, ErrNone, NoId, <<op>>, <<0>>, <<>>)
  /\ UNCHANGED <<tz, now, ms, H, tasks, completions, dbReady, appReady>>

\* the wait of 100 ms is over: attempts++, the loop condition is tested and,
\* when it fails, readiness is tested again
EnsurePoll ==
  /\ pc = "waiting"
  /\ ms' = ms + PollDelay
  /\ \E attempts \in {res.ret[1] + 1} :
        IF pollAgain(dbReady, attempts)
        THEN /\ pc' = "waiting"
             /\ res' = [res EXCEPT !.ret = <<attempts>>]
        ELSE /\ pc' = "ready"
             /\ res' = [res EXCEPT !.ret = <<attempts>>, !.ok = dbReady,
                                   !.err = IF dbReady THEN ErrNone ELSE ErrNotReady]
  /\ UNCHANGED <<tz, now, H, tasks, completions, dbReady, appReady>>

\* database.init completes while a call waits
InitCompletes ==
  /\ pc = "waiting"
  /\ ~dbReady
  /\ dbReady' = TRUE
  /\ UNCHANGED <<tz, now, ms, H, tasks, completions, appReady, pc, res>>

\* ensureDatabaseReady returned: the operation itself
Proceed ==
  /\ res.op = "ensureDatabaseReady" /\ res.ok
  /\ pc = "ready"
  /\ \/ res.def[1] = "createTask" /\ \E task \in PlainDefs : CreateTask(task, NoFail)
     \/ res.def[1] = "getTasks" /\ GetTasks(FALSE, Today, TRUE)
     \/ res.def[1] = "getTodayTasks" /\ GetTodayTasks(TRUE)
     \/ res.def[1] = "getDashboardMetrics" /\ GetDashboardMetrics(FALSE)

ReadyCall == \E op \in GuardedOps : EnsureBegin(op)

InitReady ==
  /\ tz \in Zones
  /\ now = StartInstant
  /\ ms = 0
  /\ H = 1
  /\ tasks \in {<<>>, StoredTask}
  /\ completions = <<>>
  /\ dbReady \in BOOLEAN
  /\ appReady = TRUE
  /\ pc = "ready"
  /\ res = NoResult

NextReady == ReadyCall \/ EnsurePoll \/ InitCompletes \/ Proceed

SpecReady == InitReady /\ [][NextReady]_vars

-----------------------------------------------------------------------------
(* Properties *)

\* the call made by a step: the operation and the task id it was given
CallMade(op, id) == res'.n = res.n + 1 /\ res'.op = op /\ res'.id = id

\* the calendar day (UTC, the day of the stored ISO timestamp) that holds instant t
DayOf(t) == CHOOSE d \in (t \div 24 - 1)..(t \div 24 + 1) : d * 24 <= t /\ t < (d + 1) * 24

CompletionsOf(id) == {i \in 1..Len(completions) : completions[i].taskId = id}

CompletedOnDayOf(id, t) ==
  \E i \in CompletionsOf(id) : DayOf(completions[i].completedAt) = DayOf(t)

\* the rows written by the call whose outcome is in res
CreatedIds == {res.log[i].id : i \in {j \in 1..Len(res.log) : res.log[j].ok}}

CreatedRows ==
  CHOOSE rows \in {SelectSeq(tasks, LAMBDA r : r.id \in ids) : ids \in {CreatedIds}} : TRUE

WrittenRows ==
  UNION {{tasks[i] : i \in {j \in 1..Len(tasks) : tasks[j].id \in ids}} :
           ids \in {CreatedIds}}

C5_NoRecurringRowWritten ==
  res.op = "createTask" => \A row \in WrittenRows : ~row.isRecurring

-----------------------------------------------------------------------------
(* Instance generation *)

\* the definition the call was given
Def == res.def[1]

GenerationRan ==
  res.op = "createTask" /\ res.err # ErrNotReady /\ IsRecurringDefinition(Def)

OkEntries == SelectSeq(res.log, LAMBDA e : e.ok)

\* the device's calendar day at instant t
LocalDayOf(t) == DayOf(t + tz)

\* nextOccurrence on calendar dates
NextDate(d, pattern, interval) ==
  DayOf(getNextRecurrenceDate(d * 24, pattern, interval, 0))

\* d0, nextOccurrence(d0), ... up to `last`, at most n of them
RECURSIVE CursorDates(_, _, _, _, _)
CursorDates(d, pattern, interval, last, n) ==
  IF d > last \/ n = 0 THEN <<>>
  ELSE <<d>> \o CursorDates(NextDate(d, pattern, interval), pattern, interval, last, n - 1)

DueDates(rows) ==
  CHOOSE dates \in {[i \in 1..Len(rs) |-> rs[i].dueDate] : rs \in {rows}} : TRUE

\* C3: when no write fails, createRecurringTaskWithInstances persists one
\* instance for each of the dates d0 = the definition's due date,
\* d1 = nextOccurrence(d0), ... that are <= today + H, and nothing else; a daily
\* definition due today with H = 3 gives 4 instances on 4 consecutive days.
C3_InstancesAreTheCursorDates ==
  (/\ GenerationRan
   /\ ~NoAdvance(Def.recurrencePattern, Def.recurrenceInterval)
   /\ \A i \in 1..Len(res.log) : res.log[i].ok)
  => \E dates \in {DueDates(CreatedRows)} :
        /\ dates = CursorDates(Def.dueDate, Def.recurrencePattern,
                               Def.recurrenceInterval, LocalDayOf(res.at) + res.h,
                               res.h + 3)
        /\ Len(tasks) = Len(dates)
        /\ (/\ Def.recurrencePattern = "daily"
            /\ Def.dueDate = LocalDayOf(res.at)
            /\ res.h = 3)
           => dates = [i \in 1..4 |-> Def.dueDate + i - 1]

SameText(a, b) == a = b \/ (FalsyStr(a) /\ FalsyStr(b))

Carries(row, d) ==
  /\ row.title = d.title
  /\ SameText(row.description, d.description)
  /\ row.type = d.type
  /\ row.dueTime = d.dueTime
  /\ row.priority = d.priority
  /\ SameText(row.categoryId, d.categoryId)

NotRecurring(row) ==
  ~row.isRecurring /\ FalsyStr(row.recurrencePattern) /\ row.recurrenceInterval = 0

RecurringRows == {tasks[i] : i \in {j \in 1..Len(tasks) : tasks[j].isRecurring}}

\* C4: every task written by instance generation (by createTask for a recurring
\* definition, and by the startup sweep for a stored recurring task) is not
\* recurring, has no pattern and no interval, and has the title, description,
\* type, due time, priority and category of the definition it was made from.
C4_InstancesCarryTheDefinition ==
  /\ GenerationRan
       => \A row \in WrittenRows : NotRecurring(row) /\ Carries(row, Def)
  /\ res.op = "sweep"
       => \E parents \in {RecurringRows} :
             \A row \in WrittenRows :
                NotRecurring(row) /\ \E parent \in parents : Carries(row, parent)

C4_Witness ==
  /\ res.op = "sweep"
  /\ \E row \in WrittenRows : row.description = "walk" /\ row.dueTime = 9

\* C6: createRecurringTaskWithInstances returns the instance of the first
\* write that succeeded; when no write succeeded it fails with 'Failed to
\* create any recurring task instances'.
C6_ReturnsFirstPersisted ==
  GenerationRan
  => IF OkEntries = <<>>
     THEN ~res.ok /\ res.err = ErrGeneration /\ res.ret = <<>>
     ELSE \E oks \in {OkEntries} :
             /\ res.ok
             /\ Len(res.ret) = 1
             /\ res.ret[1].id = oks[1].id
             /\ res.ret[1].dueDate = oks[1].date
             /\ \A i \in 1..Len(oks) : oks[1].cur <= oks[i].cur
             /\ res.ret[1].id \in Ids(tasks)

C6_Witness ==
  /\ GenerationRan
  /\ Len(OkEntries) >= 2
  /\ ~res.log[1].ok
  /\ res.ret[1].id = OkEntries[1].id

\* the cursor after `cur` for a task of this pattern
NextCursor(cur, task) ==
  getNextRecurrenceDate(cur, task.recurrencePattern, task.recurrenceInterval, tz)

\* after a failed attempt the next cursor, if within the horizon, is attempted
AttemptsGoOn(task) ==
  \A i \in 1..Len(res.log) :
     (~res.log[i].ok /\ NextCursor(res.log[i].cur, task) <= res.at + 24 * res.h)
       => /\ i < Len(res.log)
          /\ res.log[i + 1].cur = NextCursor(res.log[i].cur, task)

\* C7: a failed write does not end generation: the cursor moves on and the
\* next cursor date within today + H is attempted, and the tasks written are
\* those of the attempts that succeeded, one each.
C7_FailedWriteDoesNotAbort ==
  /\ (GenerationRan /\ res.n = 1)
       => \E oks \in {OkEntries} :
             /\ AttemptsGoOn(Def)
             /\ Len(tasks) = Len(oks)
             /\ \A j \in 1..Len(tasks) :
                   tasks[j].id = oks[j].id /\ tasks[j].dueDate = oks[j].date
  /\ (res.op = "sweep" /\ Len(res.log) < maxInstances)
       => \E oks \in {OkEntries} :
             /\ \A parent \in RecurringRows : AttemptsGoOn(parent)
             /\ DueDates(CreatedRows) = [j \in 1..Len(oks) |-> oks[j].date]

C7_Witness ==
  /\ GenerationRan
  /\ Len(res.log) = 3
  /\ res.log[1].ok /\ ~res.log[2].ok /\ res.log[3].ok
  /\ Len(tasks) = 2

\* C8: every instance the startup sweep creates for a stored recurring task is
\* dated after today, no later than today + H, and not on the task's own due
\* date, whatever the task's pattern, interval and due date.
C8_SweepInstancesInWindow ==
  res.op = "sweep"
  => \E parents \in {RecurringRows} :
        \A row \in WrittenRows :
           /\ row.dueDate > LocalDayOf(res.at)
           /\ row.dueDate <= LocalDayOf(res.at) + res.h
           /\ \A parent \in parents : row.dueDate # parent.dueDate

\* C9 (SpecStart): a failure in the startup sweep (a read of the tasks, a write of an
\* instance) is caught: generateMissingRecurringInstances raises nothing to
\* its caller, and a started application gets to the ready state.
C9_SweepNeverBlocksStartup ==
  /\ [](res.op = "sweep" => res.ok)
  /\ (pc = "boot") ~> (pc = "ready" /\ appReady)

C9_Witness ==
  /\ res.op = "sweep"
  /\ res.err = ErrStorage
  /\ res.log = <<>>
  /\ pc = "ready"
  /\ appReady

-----------------------------------------------------------------------------
(* Streak *)

Metrics == res.ret[1]

MetricsReturned == res.op = "getDashboardMetrics" /\ res.ok

\* the days the walk visits
WalkedDays == (LocalDayOf(res.at) - 364)..LocalDayOf(res.at)

TasksDueOn(d) == Cardinality({i \in 1..Len(tasks) : tasks[i].dueDate = d})

CompletionsRecordedOn(d) ==
  Cardinality({i \in 1..Len(completions) : DayOf(completions[i].completedAt) = d})

DaysWithTasks == {tasks[i].dueDate : i \in 1..Len(tasks)} \cap WalkedDays

Matched(d) == CompletionsRecordedOn(d) = TasksDueOn(d)

ContributingDays ==
  UNION {{d \in days : \A e \in days : e >= d => Matched(e)} : days \in {DaysWithTasks}}

EverCompleted(id) == \E i \in 1..Len(completions) : completions[i].taskId = id

\* C11: on every day that adds 1 to the streak, every task due that day has
\* a completion, also when tasks due on other days were completed that day.
C11_StreakDaysFullyCompleted ==
  MetricsReturned
  => /\ Metrics.currentStreak = Cardinality(ContributingDays)
     /\ \A d \in ContributingDays :
           \A i \in 1..Len(tasks) : tasks[i].dueDate = d => EverCompleted(tasks[i].id)

-----------------------------------------------------------------------------
(* Overdue count and completion rate *)

\* the due instant of a task is before t: its due date and due time in the
\* device's zone, or the end of its due date when it has no due time
DueBefore(row, t) ==
  IF row.dueTime = NoTime
  THEN (row.dueDate + 1) * 24 - tz <= t
  ELSE row.dueDate * 24 + row.dueTime - tz < t

CompletedOnDayOfCall(id) ==
  \E i \in 1..Len(completions) :
     completions[i].taskId = id /\ DayOf(completions[i].completedAt) = DayOf(res.at)

\* C12: the overdue count of getDashboardMetrics is the number of tasks with
\* no completion recorded today whose due instant is before now.
C12_OverdueCount ==
  MetricsReturned
  => Metrics.overdueTasks
       = Cardinality({i \in 1..Len(tasks) :
                        ~CompletedOnDayOfCall(tasks[i].id) /\ DueBefore(tasks[i], res.at)})

-----------------------------------------------------------------------------
(* Deleting, and calls on ids that are not stored *)

Rows(table) == {table[i] : i \in 1..Len(table)}

Returned(op) == res'.n = res.n + 1 /\ res'.op = op /\ res'.ok

\* C14: when deleteTask(id) returns, storage holds neither a task with that id
\* nor a completion referring to it, and every other task and completion is
\* as it was.
C14_DeleteCascades ==
  [][Returned("deleteTask")
     => \E id \in {res'.id} :
          /\ \A r \in Rows(tasks') : r.id # id
          /\ \A c \in Rows(completions') : c.taskId # id
          /\ tasks' = SelectSeq(tasks, LAMBDA r : r.id # id)
          /\ completions' = SelectSeq(completions, LAMBDA c : c.taskId # id)]_vars

\* a stored task that had a completion was deleted
C14_Witness ==
  /\ res.op = "deleteTask" /\ res.ok /\ res.id # NoId
  /\ res.was = <<1, 1>>
  /\ tasks = <<>>
  /\ completions = <<>>

\* C15: completeTask on an id that is not stored fails at once with the
\* not-found error: one call, no completion recorded.
C15_CompleteMissingFails ==
  [][(res'.n = res.n + 1 /\ res'.op = "completeTask" /\ dbReady
      /\ \A r \in Rows(tasks) : r.id # res'.id)
     => /\ ~res'.ok
        /\ res'.err = "Task not found"
        /\ completions' = completions
        /\ tasks' = tasks]_vars

C15_Witness ==
  /\ res.op = "completeTask" /\ res.err = ErrNotFound
  /\ res.id = NoId
  /\ res.was[1] > 0
  /\ completions = <<>>

\* C16: updateTask and deleteTask on an id that is not stored surface a
\* not-found error to the caller and leave storage unchanged.
C16_MissingIdSurfacesNotFound ==
  [][(res'.n = res.n + 1 /\ res'.op \in {"updateTask", "deleteTask"} /\ dbReady
      /\ \A r \in Rows(tasks) : r.id # res'.id)
     => /\ ~res'.ok
        /\ res'.err = ErrNotFound
        /\ tasks' = tasks
        /\ completions' = completions]_vars

-----------------------------------------------------------------------------
(* Storage failures *)

\* the step is a call during which a storage call failed, or was made on a
\* database that is not initialised
StorageCallFailed ==
  \/ ~dbReady /\ res'.n = res.n + 1
  \/ \E task \in PlainDefs : CreateTask(task, FailAt({1}))
  \/ \E dated \in BOOLEAN : GetTasks(dated, Today, FALSE)
  \/ GetTodayTasks(FALSE)
  \/ \E id \in Ids(tasks) \cup {NoId}, ioFail \in 1..3 : CompleteTask(id, ioFail, FALSE)
  \/ \E id \in Ids(tasks) \cup {NoId}, updates \in Edits : UpdateTask(id, updates, FALSE)
  \/ \E id \in Ids(tasks) \cup {NoId}, ioFail \in 1..2 : DeleteTask(id, ioFail)
  \/ GetDashboardMetrics(TRUE)

\* C17: a storage failure during createTask of a non-recurring task, getTasks,
\* getTodayTasks, completeTask, updateTask, deleteTask or getDashboardMetrics
\* always reaches the caller as an error: the call does not return normally.
C17_StorageFailureReachesCaller ==
  [][StorageCallFailed => ~res'.ok /\ res'.err # ErrNone]_vars

\* deleteTask removed the completions and then failed to remove the task
C17_Witness ==
  /\ res.op = "deleteTask" /\ ~res.ok /\ res.err = ErrStorage
  /\ dbReady
  /\ Len(completions) < res.was[2]
  /\ Len(tasks) = res.was[1]

-----------------------------------------------------------------------------
(* Identifiers *)

\* C18: the tasks created by a sequence of creations, the consecutive
\* instance writes of one generation loop included, receive pairwise
\* different identifiers.
C18_CreatedIdsDiffer ==
  \A log \in {res.log} : Cardinality({log[i].id : i \in 1..Len(log)}) = Len(log)

-----------------------------------------------------------------------------
(* Recurrence arithmetic *)

\* a date advanced by k single steps of a pattern taken at once
Advanced(t, pattern, k) ==
  CASE pattern = "daily"     -> t + 24 * k
    [] pattern = "weekly"    -> t + 24 * 7 * k
    [] pattern = "biweekly"  -> t + 24 * 14 * k
    [] pattern = "monthly"   -> AddMonths(t, k, tz)
    [] pattern = "quarterly" -> AddMonths(t, 3 * k, tz)
    [] pattern = "annually"  -> AddYears(t, k, tz)

\* C19: for every non-custom pattern and every date, month ends included,
\* the next occurrence of the next occurrence is the date advanced by twice
\* the step of the pattern (2, 14, 28 days, 2, 6 calendar months, 2 years).
C19_TwiceIsDoubleStep ==
  res.op = "getNextRecurrenceDate"
  => res.ret[2] = Advanced(res.at, res.def[1], 2)

-----------------------------------------------------------------------------
(* Lateness of a completion *)

Analysis == res.ret[1]

\* milliseconds from the due instant (due date + due time in the device's
\* zone, or 23:59:59.999 of the due date) to the completion instant
Lateness ==
  LET task == tasks[1]
      dueHour == task.dueDate * 24 - tz + (IF task.dueTime = NoTime THEN 23 ELSE task.dueTime)
      dueMs == IF task.dueTime = NoTime THEN 3599999 ELSE 0
  IN  (res.at - dueHour) * 3600000 + (ms - dueMs)

\* C20: a completion is marked late exactly when it is strictly after the due
\* instant: not late at the due instant, late with daysLate = 0 one
\* millisecond later, and daysLate = floor(lateness in ms / 86400000).
C20_LateExactlyAfterDue ==
  res.op = "analyzeTaskCompletion"
  => /\ Analysis.wasCompletedLate <=> Lateness > 0
     /\ Lateness > 0 => Analysis.daysLate = Lateness \div 86400000

-----------------------------------------------------------------------------
(* Completion statistics *)

Stats == res.ret[1]

FirstSeen(list, b) == CHOOSE i \in 1..Len(list) : list[i] = b /\ \A j \in 1..(i - 1) : list[j] # b

\* bucket a ranks before bucket b: more frequent, or as frequent and seen first
RanksBefore(list, a, b) ==
  \/ hourCount(list, a) > hourCount(list, b)
  \/ hourCount(list, a) = hourCount(list, b) /\ FirstSeen(list, a) < FirstSeen(list, b)

\* C21: mostCommonLateHours holds at most 3 rounded late-hour buckets, the
\* most frequent ones in descending frequency, buckets of equal frequency in
\* the order in which they were first met in the completion list.
C21_TopBucketsFirstSeenOrder ==
  res.op = "getCompletionStats"
  => \E list \in {res.log}, top \in {Stats.mostCommonLateHours} :
        \E buckets \in {{list[i] : i \in 1..Len(list)}} :
           /\ Len(top) <= 3
           /\ Len(top) = (IF Cardinality(buckets) < 3 THEN Cardinality(buckets) ELSE 3)
           /\ \A i \in 1..Len(top) : top[i] \in buckets
           /\ \A i, j \in 1..Len(top) : i < j => RanksBefore(list, top[i], top[j])
           /\ \A b \in buckets :
                 (\A i \in 1..Len(top) : top[i] # b)
                   => \A i \in 1..Len(top) : RanksBefore(list, top[i], b)

-----------------------------------------------------------------------------
(* Overlapping calls *)

\* C22: completeTask calls are not mutually excluded: a call that passed the
\* already-completed check records its completion when it resumes (unless
\* its clock value is already the id of a completion), also when another call
\* has recorded one for the same task on the same day meanwhile, so that the
\* task ends with two completions on one calendar day.
C22_OverlappingCompletionsBothRecorded ==
  [][\A c \in Calls :
        (/\ At(c, "completeTask", "checked") /\ pc'[c].at = "done"
         /\ \A i \in 1..Len(completions) : completions[i].id # DateNow(now, ms))
          => /\ res'.ok
             /\ Len(completions') = Len(completions) + 1
             /\ completions'[Len(completions')].taskId = StoredId]_vars

C22_Witness ==
  /\ \A c \in Calls : pc[c] = [op |-> "completeTask", at |-> "done"]
  /\ Len(completions) = 2
  /\ completions[1].taskId = completions[2].taskId
  /\ DayOf(completions[1].completedAt) = DayOf(completions[2].completedAt)

-----------------------------------------------------------------------------
(* The generation loop *)

\* C23: the generation loop of createRecurringTaskWithInstances runs at most
\* 365 iterations and persists at most 365 instances, for every pattern and
\* interval (custom without interval included) and every pattern of write
\* failures (every write failing included).
C23_LoopWithin365Iterations ==
  (res.op = "createTask" /\ res.n = 1)
  => /\ Len(res.log) <= maxInstances
     /\ Len(tasks) <= maxInstances

-----------------------------------------------------------------------------
(* The startup sweep *)

\* a stored task dated tomorrow, not recurring, with the title and type of r
HasTomorrowInstance(r) ==
  \E q \in Rows(tasks) :
     /\ q.dueDate = LocalDayOf(now) + 1
     /\ q.title = r.title
     /\ q.type = r.type
     /\ ~q.isRecurring

\* the sweep ran with every read succeeding
SweepRan == \E plan \in {NoFail, FailAt({1}), AllFail} : Sweep(plan, 0)

\* C24: the sweep regenerates instances for a stored task exactly when the
\* task is flagged recurring and no stored task dated tomorrow has its title
\* and type and is not recurring; when no task is regenerated, no task is
\* created.
C24_RegeneratesExactlyUnmatchedRecurring ==
  [][SweepRan
     => \E regenerated \in {{res'.ret[i] : i \in 1..Len(res'.ret)}} :
           /\ \A r \in Rows(tasks) :
                 r.id \in regenerated <=> (r.isRecurring /\ ~HasTomorrowInstance(r))
           /\ regenerated = {} => tasks' = tasks]_vars

\* a recurring task was regenerated at one start and, its instance of
\* tomorrow being there, not at the next
C24_Witness ==
  /\ res.op = "sweep" /\ res.n = 2
  /\ res.ret = <<>>
  /\ \E r \in Rows(tasks) : r.isRecurring /\ HasTomorrowInstance(r)

\* C27: a second sweep on the same day, nothing else happening in between
\* and no write or read failing, creates no task, whatever the patterns of
\* the stored recurring tasks.
C27_SweepIdempotent ==
  [][(Sweep(NoFail, 0) /\ res.op = "sweep" /\ res.err = ErrNone)
     => tasks' = tasks]_vars

-----------------------------------------------------------------------------
(* Waiting for the database *)

Waits == res.ret[1]

\* C25: a guarded operation invoked while the database is not ready polls
\* readiness at most 10 times, 100 ms apart; it goes on to the operation as
\* soon as a poll finds the database ready, and fails with the not-ready
\* error, storage untouched, when the 10th poll still finds it not ready.
C25_BoundedPolling ==
  /\ [](res.op = "ensureDatabaseReady" => (Waits <= 10 /\ ms = 100 * Waits))
  /\ [][pc = "waiting"
        => \/ /\ dbReady' /\ pc' = "waiting" /\ res' = res
           \/ /\ Waits' = Waits + 1
              /\ tasks' = tasks /\ completions' = completions
              /\ IF dbReady THEN pc' = "ready" /\ res'.ok
                 ELSE IF Waits' < 10 THEN pc' = "waiting"
                 ELSE pc' = "ready" /\ ~res'.ok
                      /\ res'.err = "Database is not ready after waiting. Please restart the app."]_vars
  /\ [][(res.op = "ensureDatabaseReady" /\ pc = "ready")
        => /\ res.ok
           /\ res'.op = res.def[1]
           /\ res'.err # ErrNotReady]_vars

C25_Witness ==
  /\ res.op = "ensureDatabaseReady"
  /\ pc = "ready"
  /\ ~res.ok /\ res.err = ErrNotReady
  /\ Waits = 10
  /\ ms = 1000

-----------------------------------------------------------------------------
(* Completions and the tasks they refer to *)

StoredIds == {tasks[i].id : i \in 1..Len(tasks)}

\* C26: every persisted completion refers to a task that is in storage, also
\* when a completeTask call and a deleteTask call for the same task overlap.
C26_CompletionsReferToStoredTasks ==
  \A i \in 1..Len(completions) : completions[i].taskId \in StoredIds

-----------------------------------------------------------------------------
(* Definitions due beyond the horizon *)

\* C28: createTask of a recurring definition whose due date is later than
\* today + H persists no task and fails with 'Failed to create any recurring
\* task instances', no write having failed.
C28_BeyondHorizonCreatesNothing ==
  (GenerationRan /\ Def.dueDate > LocalDayOf(res.at) + res.h)
  => /\ ~res.ok
     /\ res.err = ErrGeneration
     /\ res.log = <<>>
     /\ Len(tasks) = res.was[1]

-----------------------------------------------------------------------------
(* Completed tasks and the overdue list *)

OverdueNow == dbGetOverdueTasks(tasks, completions, now, tz)

CompletedOnDayOfCallCount ==
  Cardinality({i \in 1..Len(tasks) : CompletedOnDayOfCall(tasks[i].id)})

\* C29: a task with a completion recorded today is not returned by
\* getOverdueTasks and is not counted in the overdueTasks metric, whatever
\* its due date.
C29_CompletedTaskNotOverdue ==
  /\ \A i \in 1..Len(OverdueNow) : ~CompletedOnDayOf(OverdueNow[i].id, now)
  /\ MetricsReturned
       => Metrics.overdueTasks <= Len(tasks) - CompletedOnDayOfCallCount

-----------------------------------------------------------------------------
(* Range of the dashboard figures *)

\* C30: the completionRate of getDashboardMetrics is between 0 and 100, and
\* completedToday is at most todayTasks.
C30_RateWithinRange ==
  MetricsReturned
  => /\ Metrics.completionRate \in 0..100
     /\ Metrics.completedToday <= Metrics.todayTasks

====
